---- MODULE Spec2Model ----
(***************************************************************************)
(* Model of deep_research_openai.py: a Streamlit script that is re-run on  *)
(* every user interaction.  One re-run reads the four text inputs, updates *)
(* st.session_state, renders the "Start Research" button and, when the     *)
(* button was clicked, runs run_research_process: one Firecrawl            *)
(* deep-research call followed by two calls of call_llama.                 *)
(*                                                                         *)
(* Text is a sequence of tokens.  A token is a single character (" ",      *)
(* "x", a digit ...) or a literal chunk of a template; str.strip and       *)
(* str.replace act on the single-character tokens.                         *)
(***************************************************************************)
EXTENDS Integers, Sequences, FiniteSets, TLC

(* ------------------------------ bounds --------------------------------- *)

\* longest generated text a completion response carries
MaxLen == 2

\* characters of a generated text: one whitespace, one non-whitespace
Alphabet == {" ", "x"}

Texts == UNION {[1..n -> Alphabet] : n \in 0..MaxLen}

\* values the three sidebar inputs can hold ("" is the empty field)
Endpoints == {"", "a", "b"}
ApiKeys == {"", "k"}
CrawlKeys == {"", "f"}

\* values of the topic input
Topics == {<<>>, <<"q">>, <<"q", " ", "c">>}

\* HTTP status codes the completion endpoint answers with
HTTP_OK == 200
StatusCodes == {HTTP_OK, 404, 503}

\* arguments of the deep_research call
max_depth == 3
time_limit == 180
max_urls == 10

\* decoding parameter of the completion payload
max_new_tokens == 1024

(* --------------------------- string helpers ---------------------------- *)

Whitespace == {" ", "\n", "\t"}

Digit(d) == CASE d = 0 -> "0" [] d = 1 -> "1" [] d = 2 -> "2" [] d = 3 -> "3"
              [] d = 4 -> "4" [] d = 5 -> "5" [] d = 6 -> "6" [] d = 7 -> "7"
              [] d = 8 -> "8" [] d = 9 -> "9"

\* str(n) of a non-negative int, as used by the f-strings
RECURSIVE IntToStr(_)
IntToStr(n) == IF n < 10 THEN <<Digit(n)>>
               ELSE IntToStr(n \div 10) \o <<Digit(n % 10)>>

\* str.lstrip / str.rstrip / str.strip
RECURSIVE lstrip(_)
lstrip(s) == IF s # <<>> /\ Head(s) \in Whitespace THEN lstrip(Tail(s)) ELSE s

RECURSIVE rstrip(_)
rstrip(s) == IF s # <<>> /\ s[Len(s)] \in Whitespace
             THEN rstrip(SubSeq(s, 1, Len(s) - 1)) ELSE s

strip(s) == rstrip(lstrip(s))

\* str.replace(' ', '_')
replace_space(s) == [i \in 1..Len(s) |-> IF s[i] = " " THEN "_" ELSE s[i]]

\* needle in haystack
Contains(haystack, needle) ==
    \E i \in 1..(Len(haystack) - Len(needle) + 1) :
        SubSeq(haystack, i, i + Len(needle) - 1) = needle

\* repr of a list of strings, as f"{sources}" formats it
RECURSIVE repr_items(_)
repr_items(l) == IF l = <<>> THEN <<>>
                 ELSE IF Len(l) = 1 THEN <<"'", l[1], "'">>
                 ELSE <<"'", l[1], "'", ", ">> \o repr_items(Tail(l))

repr_list(l) == <<"[">> \o repr_items(l) \o <<"]">>

(* --------------------- the remote services' answers -------------------- *)

\* a JSON object of a completion response: with or without generated_text
JsonObjects == {[generated_text |-> t] : t \in Texts} \cup {[error |-> <<"x">>]}

\* response.json(): a list, an object, or a body that is not JSON
JsonBodies ==
    {[type |-> "list", val |-> <<>>]}
    \cup {[type |-> "list", val |-> <<o>>] : o \in JsonObjects}
    \cup {[type |-> "dict", val |-> o] : o \in JsonObjects}
    \cup {[type |-> "invalid", val |-> <<>>]}

\* what requests.post returns: a 200 with a body, or an error status with text
Responses ==
    {[status_code |-> HTTP_OK, text |-> <<>>, json |-> j] : j \in JsonBodies}
    \cup {[status_code |-> s, text |-> t, json |-> [type |-> "invalid", val |-> <<>>]] :
             s \in StatusCodes \ {HTTP_OK}, t \in {<<>>, <<"x">>}}

\* requests.post either answers with a response or fails to connect
PostOutcomes ==
    {[connected |-> TRUE, response |-> r] : r \in Responses}
    \cup {[connected |-> FALSE,
           response |-> [status_code |-> 0, text |-> <<>>,
                         json |-> [type |-> "invalid", val |-> <<>>]]]}

\* what FirecrawlApp.deep_research does: raises, or returns results that
\* carry data.finalAnalysis and data.sources, or results without data
FirecrawlOutcomes ==
    {[raises |-> TRUE, error |-> <<"timeout">>, has_data |-> FALSE,
      finalAnalysis |-> <<>>, sources |-> <<>>, activities |-> a] :
        a \in {<<>>, <<[type |-> "search", message |-> "m"]>>}}
    \cup {[raises |-> FALSE, error |-> <<>>, has_data |-> FALSE,
           finalAnalysis |-> <<>>, sources |-> <<>>, activities |-> <<>>]}
    \cup {[raises |-> FALSE, error |-> <<>>, has_data |-> TRUE,
           finalAnalysis |-> <<"X">>, sources |-> s,
           activities |-> <<[type |-> "search", message |-> "m"]>>] :
             s \in {<<>>, <<"s1", "s2">>}}

(* ------------------------------ state ---------------------------------- *)

VARIABLES
    session_state,       \* st.session_state: llama_api_key, llama_endpoint, firecrawl_api_key
    llama_endpoint,      \* value returned by the endpoint text input in this run
    llama_api_key,       \* value returned by the API-key text input in this run
    firecrawl_api_key,   \* value returned by the Firecrawl-key text input in this run
    research_topic,      \* value returned by the topic text input in this run
    button_disabled,     \* the disabled= argument the button was rendered with
    clicked,             \* what st.button returned in this run
    pc,                  \* position of the script: "done", "research", "draft", "enhance"
    calls,               \* network calls made in this run, in order
    outcomes,            \* what each of those calls produced, in the same order
    ui,                  \* elements written to the page in this run, in order
    report_placeholder,  \* content of the st.empty() container
    research_result,     \* dict returned by deep_research
    initial_report,      \* the draft
    returned             \* return value of run_research_process

vars == <<session_state, llama_endpoint, llama_api_key, firecrawl_api_key,
          research_topic, button_disabled, clicked, pc, calls, outcomes, ui,
          report_placeholder, research_result, initial_report, returned>>

NoResult == [success |-> FALSE, error |-> <<>>, final_analysis |-> <<>>,
             sources_count |-> 0, sources |-> <<>>, set |-> FALSE]

NoReturn == [set |-> FALSE, value |-> <<>>]

EmptyPlaceholder == <<>>

(* ------------------------- lines 14-46: session ------------------------ *)

\* lines 15-20: the three keys are created empty when the session starts
InitialSessionState ==
    [llama_api_key |-> "", llama_endpoint |-> "", firecrawl_api_key |-> ""]

\* variant of UpdateSessionState: the inputs are stored unconditionally
UpdateSessionState_overwrite(ss, endpoint, api_key, crawl_key) ==
    [llama_endpoint |-> endpoint, llama_api_key |-> api_key,
     firecrawl_api_key |-> crawl_key]

\* lines 41-46: a non-empty input overwrites the stored value, an empty one does not
UpdateSessionState(ss, endpoint, api_key, crawl_key) ==
    [llama_endpoint    |-> IF endpoint # "" THEN endpoint ELSE ss.llama_endpoint,
     llama_api_key     |-> IF api_key # "" THEN api_key ELSE ss.llama_api_key,
     firecrawl_api_key |-> IF crawl_key # "" THEN crawl_key ELSE ss.firecrawl_api_key]

(* ----------------------- lines 56-81: call_llama ----------------------- *)

Return(v) == [raised |-> FALSE, type |-> "", value |-> v]
Raise(t, msg) == [raised |-> TRUE, type |-> t, value |-> msg]

\* lines 57-75: the request that is posted
LlamaRequest(prompt, ss) ==
    [service |-> "llama",
     url |-> ss.llama_endpoint,
     authorization |-> IF ss.llama_api_key # "" THEN <<"Bearer ", ss.llama_api_key>>
                       ELSE <<>>,
     inputs |-> prompt,
     max_new_tokens |-> max_new_tokens]

\* variant of LlamaErrorMessage: the status code is left out of the message
LlamaErrorMessage_no_status(response) ==
    <<"LLaMA API error: ">> \o response.text

\* line 81: the message of the exception raised for an error status
LlamaErrorMessage(response) ==
    <<"LLaMA API error: ">> \o IntToStr(response.status_code) \o <<" - ">>
        \o response.text

\* variant of ExtractGeneratedText: the object is indexed instead of .get
ExtractGeneratedText_indexed(result) ==
    IF result.type = "list"
    THEN IF result.val = <<>>
         THEN Raise("IndexError", <<"list index out of range">>)
         ELSE IF "generated_text" \notin DOMAIN result.val[1]
              THEN Raise("KeyError", <<"'generated_text'">>)
              ELSE Return(result.val[1].generated_text)
    ELSE IF "generated_text" \notin DOMAIN result.val
         THEN Raise("KeyError", <<"'generated_text'">>)
         ELSE Return(strip(result.val.generated_text))

\* line 79: result[0]["generated_text"] if isinstance(result, list)
\*          else result.get("generated_text", "").strip()
ExtractGeneratedText(result) ==
    IF result.type = "list"
    THEN IF result.val = <<>>
         THEN Raise("IndexError", <<"list index out of range">>)
         ELSE IF "generated_text" \notin DOMAIN result.val[1]
              THEN Raise("KeyError", <<"'generated_text'">>)
              ELSE Return(result.val[1].generated_text)
    ELSE Return(strip(IF "generated_text" \in DOMAIN result.val
                      THEN result.val.generated_text
                      ELSE <<>>))

\* lines 71-81: what call_llama does with the outcome of requests.post
call_llama(post) ==
    IF ~post.connected
    THEN Raise("ConnectionError", <<"connection failed">>)
    ELSE IF post.response.status_code = HTTP_OK
         THEN IF post.response.json.type = "invalid"
              THEN Raise("JSONDecodeError", <<"Expecting value">>)
              ELSE ExtractGeneratedText(post.response.json)
         ELSE Raise("Exception", LlamaErrorMessage(post.response))

(* --------------------- lines 84-114: deep_research --------------------- *)

\* lines 89-104: the call made on the Firecrawl client
FirecrawlRequest(query, ss) ==
    [service |-> "firecrawl",
     api_key |-> ss.firecrawl_api_key,
     query |-> query,
     maxDepth |-> max_depth,
     timeLimit |-> time_limit,
     maxUrls |-> max_urls]

\* lines 88-114: the dict deep_research returns
deep_research(o) ==
    IF o.raises
    THEN [NoResult EXCEPT !.set = TRUE, !.error = o.error]
    ELSE IF ~o.has_data
         THEN [NoResult EXCEPT !.set = TRUE, !.error = <<"'data'">>]
         ELSE [success |-> TRUE, error |-> <<>>,
               final_analysis |-> o.finalAnalysis,
               sources_count |-> Len(o.sources),
               sources |-> o.sources, set |-> TRUE]

\* lines 96-97: on_activity writes one line per activity
ActivityElems(o) ==
    [i \in 1..Len(o.activities) |->
        [el |-> "write",
         body |-> <<"[", o.activities[i].type, "] ", o.activities[i].message>>]]

\* line 113: st.error of deep_research
DeepResearchErrorElems(r) ==
    IF r.success THEN <<>>
    ELSE <<[el |-> "error", body |-> <<"Deep research error: ">> \o r.error]>>

(* ------------------ lines 117-160: run_research_process ---------------- *)

\* variant of research_failed: the test is inverted
research_failed_inverted(r) == r.success

\* line 122: if not research_result["success"]
research_failed(r) == ~r.success

\* line 123
ResearchFailedText == <<"Research failed. Please try again.">>

\* lines 128-140
initial_prompt(topic, final_analysis, sources) ==
    <<"\nYou are a research assistant. Based on the analysis and sources below, generate a clear, structured research report.\n\nTopic: ">>
    \o topic \o <<"\n\nAnalysis:\n">> \o final_analysis \o <<"\n\nSources:\n">>
    \o repr_list(sources)
    \o <<"\n\nWrite a concise research report with citations and key insights.\n">>

\* lines 148-157
enhancement_prompt(report) ==
    <<"\nEnhance the following research report by:\n- Adding more detail to complex parts\n- Including examples, case studies, and applications\n- Describing visual elements like diagrams\n- Making the report comprehensive but factual\n\nOriginal Report:\n">>
    \o report \o <<"\n">>

\* variant of ExpanderElems: the draft is not shown
ExpanderElems_none(report) == <<>>

\* lines 143-144: the draft is shown in an expander
ExpanderElems(report) ==
    <<[el |-> "expander", label |-> "View Initial Research Report", body |-> report]>>

(* ------------------- lines 163-185: the button handler ----------------- *)

\* variant of ButtonDisabled: the crawl key is not looked at
ButtonDisabled_no_crawl(topic, ss) ==
    ~(topic # <<>> /\ ss.llama_endpoint # "")

\* line 163: disabled=not (research_topic and endpoint and firecrawl key)
ButtonDisabled(topic, ss) ==
    ~(topic # <<>> /\ ss.llama_endpoint # "" /\ ss.firecrawl_api_key # "")

\* variant of Validation: the topic is not checked
Validation_no_topic(topic, ss) ==
    IF ss.firecrawl_api_key = "" THEN <<"Please enter the Firecrawl API key.">>
    ELSE IF ss.llama_endpoint = "" THEN <<"Please enter the LLaMA API endpoint.">>
    ELSE <<>>

\* lines 164-169: the warning shown instead of running, <<>> when there is none
Validation(topic, ss) ==
    IF topic = <<>> THEN <<"Please enter a research topic.">>
    ELSE IF ss.firecrawl_api_key = "" THEN <<"Please enter the Firecrawl API key.">>
    ELSE IF ss.llama_endpoint = "" THEN <<"Please enter the LLaMA API endpoint.">>
    ELSE <<>>

\* lines 175-176: the heading is written to the placeholder, then replaced by the report
ReportMarkdown(report) == <<[el |-> "markdown", body |-> report]>>

\* lines 178-183
DownloadElems(report, topic) ==
    <<[el |-> "download_button", label |-> "Download Report", body |-> report,
       file_name |-> replace_space(topic) \o <<"_report.md">>]>>

\* lines 184-185
HandlerErrorElems(out) ==
    <<[el |-> "error", body |-> <<"An error occurred: ">> \o out.value]>>

(* ------------------------------ actions -------------------------------- *)

Init ==
    /\ session_state = InitialSessionState
    /\ llama_endpoint = ""
    /\ llama_api_key = ""
    /\ firecrawl_api_key = ""
    /\ research_topic = <<>>
    /\ button_disabled = ButtonDisabled(<<>>, InitialSessionState)
    /\ clicked = FALSE
    /\ pc = "done"
    /\ calls = <<>>
    /\ outcomes = <<>>
    /\ ui = <<>>
    /\ report_placeholder = EmptyPlaceholder
    /\ research_result = NoResult
    /\ initial_report = <<>>
    /\ returned = NoReturn

\* One re-run of the script up to the first network call (lines 15-53 and
\* 163-173).  The user edited the inputs; a click can only come from a button
\* that the previous run rendered enabled.
Rerun(endpoint, api_key, crawl_key, topic, click) ==
    /\ pc = "done"
    /\ click => ~button_disabled
    /\ LET ss == UpdateSessionState(session_state, endpoint, api_key, crawl_key)
           warning == Validation(topic, ss)
       IN  /\ session_state' = ss
           /\ button_disabled' = ButtonDisabled(topic, ss)
           /\ IF click /\ warning = <<>>
              THEN pc' = "research" /\ ui' = <<>>
              ELSE /\ pc' = "done"
                   /\ ui' = IF click THEN <<[el |-> "warning", body |-> warning]>>
                            ELSE <<>>
    /\ llama_endpoint' = endpoint
    /\ llama_api_key' = api_key
    /\ firecrawl_api_key' = crawl_key
    /\ research_topic' = topic
    /\ clicked' = click
    /\ calls' = <<>>
    /\ outcomes' = <<>>
    /\ report_placeholder' = EmptyPlaceholder
    /\ research_result' = NoResult
    /\ initial_report' = <<>>
    /\ returned' = NoReturn

\* lines 119-126 (and 175-183 when the research failed): the Firecrawl call
DeepResearch(o) ==
    /\ pc = "research"
    /\ calls' = Append(calls, FirecrawlRequest(research_topic, session_state))
    /\ outcomes' = Append(outcomes, o)
    /\ LET r == deep_research(o)
       IN  /\ research_result' = r
           /\ IF research_failed(r)
              THEN /\ returned' = [set |-> TRUE, value |-> ResearchFailedText]
                   /\ report_placeholder' = ReportMarkdown(ResearchFailedText)
                   /\ ui' = ui \o ActivityElems(o) \o DeepResearchErrorElems(r)
                               \o DownloadElems(ResearchFailedText, research_topic)
                   /\ pc' = "done"
              ELSE /\ ui' = ui \o ActivityElems(o) \o DeepResearchErrorElems(r)
                   /\ pc' = "draft"
                   /\ UNCHANGED <<returned, report_placeholder>>
    /\ UNCHANGED <<session_state, llama_endpoint, llama_api_key, firecrawl_api_key,
                   research_topic, button_disabled, clicked, initial_report>>

\* lines 128-144 (and 184-185 when call_llama raised): the draft call
DraftCall(post) ==
    /\ pc = "draft"
    /\ LET prompt == initial_prompt(research_topic, research_result.final_analysis,
                                    research_result.sources)
           out == call_llama(post)
       IN  /\ calls' = Append(calls, LlamaRequest(prompt, session_state))
           /\ outcomes' = Append(outcomes, [post |-> post, out |-> out])
           /\ IF out.raised
              THEN /\ ui' = ui \o HandlerErrorElems(out)
                   /\ pc' = "done"
                   /\ UNCHANGED initial_report
              ELSE /\ initial_report' = out.value
                   /\ ui' = ui \o ExpanderElems(out.value)
                   /\ pc' = "enhance"
    /\ UNCHANGED <<session_state, llama_endpoint, llama_api_key, firecrawl_api_key,
                   research_topic, button_disabled, clicked, report_placeholder,
                   research_result, returned>>

\* lines 147-160 and 175-185: the enhancement call and the rendering of its result
EnhanceCall(post) ==
    /\ pc = "enhance"
    /\ LET prompt == enhancement_prompt(initial_report)
           out == call_llama(post)
       IN  /\ calls' = Append(calls, LlamaRequest(prompt, session_state))
           /\ outcomes' = Append(outcomes, [post |-> post, out |-> out])
           /\ IF out.raised
              THEN /\ ui' = ui \o HandlerErrorElems(out)
                   /\ UNCHANGED <<returned, report_placeholder>>
              ELSE /\ returned' = [set |-> TRUE, value |-> out.value]
                   /\ report_placeholder' = ReportMarkdown(out.value)
                   /\ ui' = ui \o DownloadElems(out.value, research_topic)
    /\ pc' = "done"
    /\ UNCHANGED <<session_state, llama_endpoint, llama_api_key, firecrawl_api_key,
                   research_topic, button_disabled, clicked, research_result,
                   initial_report>>

Next ==
    \/ \E endpoint \in Endpoints, api_key \in ApiKeys, crawl_key \in CrawlKeys,
          topic \in Topics, click \in BOOLEAN :
            Rerun(endpoint, api_key, crawl_key, topic, click)
    \/ \E o \in FirecrawlOutcomes : DeepResearch(o)
    \/ \E post \in PostOutcomes : DraftCall(post)
    \/ \E post \in PostOutcomes : EnhanceCall(post)

Spec == Init /\ [][Next]_vars

TypeOK ==
    /\ session_state \in [llama_api_key : ApiKeys, llama_endpoint : Endpoints,
                          firecrawl_api_key : CrawlKeys]
    /\ pc \in {"done", "research", "draft", "enhance"}
    /\ Len(calls) = Len(outcomes)
    /\ Len(calls) <= 3

(* ------------------------------ claims --------------------------------- *)

LlamaCalls == {i \in DOMAIN calls : calls[i].service = "llama"}

HasElem(kind) == \E i \in DOMAIN ui : ui[i].el = kind

\* the research call of this run produced a failure result
ResearchFailedInRun == research_result.set /\ ~research_result.success

\* C1: whenever deep_research yields a failure result, run_research_process
\* has returned exactly "Research failed. Please try again." and no call of
\* the completion endpoint was made in that run.
C1_FailureShortCircuits ==
    ResearchFailedInRun =>
        /\ returned = [set |-> TRUE, value |-> <<"Research failed. Please try again.">>]
        /\ LlamaCalls = {}
        /\ Len(calls) = 1

C1_Witness ==
    /\ ResearchFailedInRun
    /\ returned.set
    /\ research_topic = <<"q", " ", "c">>

\* C2 as stated, read on the input fields: the button is enabled exactly when
\* the topic, endpoint and crawl-key inputs of this re-run are all non-empty.
C2_Original ==
    ~button_disabled <=>
        (research_topic # <<>> /\ llama_endpoint # "" /\ firecrawl_api_key # "")

\* C2 (amended): in every re-run the button is enabled exactly when the topic
\* input, the stored endpoint and the stored crawl key are all non-empty.
C2_ButtonEnablement ==
    ~button_disabled <=>
        /\ research_topic # <<>>
        /\ session_state.llama_endpoint # ""
        /\ session_state.firecrawl_api_key # ""

C2_Witness ==
    /\ ~button_disabled
    /\ llama_endpoint = ""
    /\ firecrawl_api_key = ""
    /\ pc = "done"

\* C3: every call of call_llama that is answered with a status other than 200
\* raises, returns no text, and the message of the exception contains the
\* decimal status code.
C3_ErrorStatusRaises ==
    \A i \in LlamaCalls :
        (outcomes[i].post.connected /\ outcomes[i].post.response.status_code # 200) =>
            /\ outcomes[i].out.raised
            /\ Contains(outcomes[i].out.value,
                        IntToStr(outcomes[i].post.response.status_code))
            /\ i = Len(calls)
            /\ ~returned.set

C3_Witness ==
    \E i \in LlamaCalls :
        /\ outcomes[i].post.connected
        /\ outcomes[i].post.response.status_code = 503
        /\ outcomes[i].post.response.text = <<"x">>
        /\ outcomes[i].out.raised

\* the 200 answers that carry a generated text, as a list or as an object
CarriesText(post) ==
    /\ post.connected
    /\ post.response.status_code = 200
    /\ \/ /\ post.response.json.type = "list"
          /\ post.response.json.val # <<>>
          /\ "generated_text" \in DOMAIN post.response.json.val[1]
       \/ /\ post.response.json.type = "dict"
          /\ "generated_text" \in DOMAIN post.response.json.val

CarriedText(post) ==
    IF post.response.json.type = "list"
    THEN post.response.json.val[1].generated_text
    ELSE post.response.json.val.generated_text

\* C4: for every 200 answer, call_llama returns the generated_text of element
\* 0 of a list and the generated_text of an object unmodified, so both shapes
\* with the same text give the same result.
C4_ExtractsUnmodified ==
    \A i \in LlamaCalls :
        CarriesText(outcomes[i].post) =>
            outcomes[i].out = [raised |-> FALSE, type |-> "",
                               value |-> CarriedText(outcomes[i].post)]

\* text occupies the hole of a prompt template that starts at token pos
Embeds(prompt, pos, text) == SubSeq(prompt, pos, pos + Len(text) - 1) = text

\* C5: a run in which the research call and both completion calls succeeded
\* made exactly a research call, a draft call whose prompt embeds topic,
\* analysis and sources, and an enhancement call whose prompt embeds the
\* draft, in that order, and returned the endpoint's answer to the last one.
C5_Sequence ==
    (pc = "done" /\ Len(calls) = 3 /\ returned.set
        /\ CarriesText(outcomes[2].post) /\ CarriesText(outcomes[3].post)) =>
        /\ calls[1].service = "firecrawl"
        /\ calls[1].query = research_topic
        /\ calls[2].service = "llama"
        /\ LET topic == research_topic
               analysis == outcomes[1].finalAnalysis
               sources == repr_list(outcomes[1].sources)
           IN  /\ Len(calls[2].inputs) = 4 + Len(topic) + Len(analysis) + Len(sources)
               /\ Embeds(calls[2].inputs, 2, topic)
               /\ Embeds(calls[2].inputs, 3 + Len(topic), analysis)
               /\ Embeds(calls[2].inputs, 4 + Len(topic) + Len(analysis), sources)
        /\ calls[3].service = "llama"
        /\ Len(calls[3].inputs) = 2 + Len(outcomes[2].out.value)
        /\ Embeds(calls[3].inputs, 2, outcomes[2].out.value)
        /\ returned.value = CarriedText(outcomes[3].post)

\* a completion answer that is not a well-formed success
LlamaFailure(post) == ~CarriesText(post)

\* some network call of this run failed, and it is call number i
FailedCall(i) ==
    IF calls[i].service = "firecrawl"
    THEN outcomes[i].raises \/ ~outcomes[i].has_data
    ELSE LlamaFailure(outcomes[i].post)

\* C6: every service failure shows an error, is the last network call of its
\* run, and leaves no report rendered and no download button offered.
C6_FailureHalts ==
    \A i \in DOMAIN calls :
        (FailedCall(i) /\ pc = "done") =>
            /\ HasElem("error")
            /\ i = Len(calls)
            /\ report_placeholder = EmptyPlaceholder
            /\ ~HasElem("download_button")

FailedInRun ==
    \/ ResearchFailedInRun
    \/ \E i \in LlamaCalls : outcomes[i].out.raised

\* C8 as stated: in a run with a failed call no draft is ever shown.
C8_Original == FailedInRun => ~HasElem("expander")

\* C8 (amended): a failed research or draft call leaves no draft shown; a
\* failed enhancement call leaves the draft shown in its expander, with no
\* report rendered and no download button.
C8_PartialOutput ==
    /\ (ResearchFailedInRun \/ (Len(calls) = 2 /\ outcomes[2].out.raised)) =>
            ~HasElem("expander")
    /\ (Len(calls) = 3 /\ outcomes[3].out.raised) =>
            /\ \E i \in DOMAIN ui :
                   /\ ui[i].el = "expander"
                   /\ ui[i].body = outcomes[2].out.value
            /\ report_placeholder = EmptyPlaceholder
            /\ ~HasElem("download_button")
            /\ ~returned.set

C8_Witness ==
    /\ Len(calls) = 3
    /\ outcomes[3].out.raised
    /\ outcomes[2].out.value = <<"x", "x">>
    /\ pc = "done"

ObjectWithoutText(post) ==
    /\ post.connected /\ post.response.status_code = 200
    /\ post.response.json.type = "dict"
    /\ "generated_text" \notin DOMAIN post.response.json.val

EmptyList(post) ==
    /\ post.connected /\ post.response.status_code = 200
    /\ post.response.json.type = "list"
    /\ post.response.json.val = <<>>

ListWithoutText(post) ==
    /\ post.connected /\ post.response.status_code = 200
    /\ post.response.json.type = "list"
    /\ post.response.json.val # <<>>
    /\ "generated_text" \notin DOMAIN post.response.json.val[1]

\* C9 as stated: each of the three unexpected shapes makes call_llama return
\* the empty string without raising.
C9_Original ==
    \A i \in LlamaCalls :
        (\/ ObjectWithoutText(outcomes[i].post)
         \/ EmptyList(outcomes[i].post)
         \/ ListWithoutText(outcomes[i].post)) =>
            outcomes[i].out = [raised |-> FALSE, type |-> "", value |-> <<>>]

\* C9 (amended): an object without generated_text makes call_llama return the
\* empty string without raising; an empty list raises IndexError and a list
\* whose first element has no generated_text raises KeyError.
C9_UnexpectedShapes ==
    \A i \in LlamaCalls :
        /\ ObjectWithoutText(outcomes[i].post) =>
              outcomes[i].out = [raised |-> FALSE, type |-> "", value |-> <<>>]
        /\ EmptyList(outcomes[i].post) =>
              (outcomes[i].out.raised /\ outcomes[i].out.type = "IndexError")
        /\ ListWithoutText(outcomes[i].post) =>
              (outcomes[i].out.raised /\ outcomes[i].out.type = "KeyError")

C9_Witness ==
    /\ Len(calls) = 3
    /\ ObjectWithoutText(outcomes[2].post)
    /\ initial_report = <<>>
    /\ EmptyList(outcomes[3].post)
    /\ outcomes[3].out.raised

\* one stored string and its input obey the overwrite rule over a step
StoredRule(old, new, input) ==
    /\ input # "" => new = input
    /\ input = "" => new = old
    /\ old # "" => new # ""

\* C10: the three stored strings start empty; over every step each is
\* overwritten only by a non-empty input and kept by an empty one, so it never
\* goes back to empty; the button and the network calls use the stored values.
C10_StoredConfiguration ==
    /\ session_state = [llama_api_key |-> "", llama_endpoint |-> "",
                        firecrawl_api_key |-> ""]
    /\ [][/\ StoredRule(session_state.llama_endpoint,
                        session_state.llama_endpoint', llama_endpoint')
          /\ StoredRule(session_state.llama_api_key,
                        session_state.llama_api_key', llama_api_key')
          /\ StoredRule(session_state.firecrawl_api_key,
                        session_state.firecrawl_api_key', firecrawl_api_key')
          /\ button_disabled' =
                ~(/\ research_topic' # <<>>
                  /\ session_state.llama_endpoint' # ""
                  /\ session_state.firecrawl_api_key' # "")
          /\ \A i \in DOMAIN calls' :
                IF calls'[i].service = "llama"
                THEN /\ calls'[i].url = session_state.llama_endpoint'
                     /\ calls'[i].authorization =
                            IF session_state.llama_api_key' = "" THEN <<>>
                            ELSE <<"Bearer ", session_state.llama_api_key'>>
                ELSE calls'[i].api_key = session_state.firecrawl_api_key'
         ]_vars

C10_Witness ==
    /\ llama_endpoint = ""
    /\ firecrawl_api_key = ""
    /\ llama_api_key = ""
    /\ session_state.llama_endpoint = "b"
    /\ ~button_disabled
    /\ Len(calls) = 3
    /\ calls[3].url = "b"
    /\ calls[1].api_key = "f"

====
